---- MODULE Spec2Model ----
(***************************************************************************)
(* LawRagBot: the retrieval pipeline of src/setup_pinecone.py, the search  *)
(* tool of src/tools.py and the query workflow of src/tasks.py.            *)
(*                                                                         *)
(* Three activities share one similarity index:                            *)
(*   - ingestion   PineconeVectorStore.store_chunks / create_index         *)
(*   - search      PineconeSearchTool._run -> search_similar               *)
(*   - a query     LegalRAGSystem.answer_query, whose retriever agent      *)
(*                 calls the search tool                                    *)
(* Scores and thresholds are written in hundredths (0.4 is 40).            *)
(***************************************************************************)
EXTENDS Integers, Sequences, FiniteSets, TLC

VARIABLES
    index,        \* the Pinecone index "legal-documents": whether it exists, its vectors
    ipc,          \* store_chunks: position of the ingestion call
    gen,          \* number of store_chunks calls started (names the call's chunk ids)
    nchunks,      \* len(chunks) of the current store_chunks call
    batch_i,      \* store_chunks: loop variable i
    stored_count, \* store_chunks: stored_count
    storeResult,  \* store_chunks: the returned dict
    prevIndex,    \* history: the index as it was when the current store_chunks call began
    srch,         \* PineconeSearchTool._run / search_similar: position, arguments, results
    toolOut,      \* the value the last PineconeSearchTool._run returned
    qpc,          \* answer_query: position
    qrun,         \* number of answer_query calls started
    verdict,      \* answer_query: str(search_result), the retriever's raw output
    answer,       \* answer_query: the returned string
    iters,        \* tool calls made by the agent that is running (bounded by max_iter)
    hist,         \* history of the current answer_query call
    pdf_files,    \* process_all_pdfs: the PDF files of the directory
    ppc,          \* process_all_pdfs / setup_complete_system: position
    pdf_i,        \* process_all_pdfs: number of files the loop has taken
    chunks,       \* process_all_pdfs: what the last process_pdf returned
    all_chunks,   \* process_all_pdfs: all_chunks
    stats,        \* process_all_pdfs: stats
    payloads      \* the vectors store_chunks built for all_chunks (id, metadata)

vars == <<index, ipc, gen, nchunks, batch_i, stored_count, storeResult, prevIndex,
          srch, toolOut, qpc, qrun, verdict, answer, iters, hist,
          pdf_files, ppc, pdf_i, chunks, all_chunks, stats, payloads>>

corpusVars == <<pdf_files, ppc, pdf_i, chunks, all_chunks, stats, payloads>>

ingestVars == <<ipc, gen, nchunks, batch_i, stored_count, storeResult, prevIndex>>
queryVars  == <<qpc, qrun, verdict, answer, iters, hist>>
searchVars == <<srch, toolOut>>

-----------------------------------------------------------------------------
(* Bounds of the model *)

MaxIngests == 2
MaxChunks  == 101
MaxQueries == 2
MaxVectors == 3
MaxTopK    == 3
MaxDocs    == 2
MaxPages   == 2
MaxTokens  == 4

(* Program constants *)

batch_size == 50
max_iter == 3
top_k_prompt == 3
score_threshold_prompt == 40
score_threshold_tool_default == 50
score_threshold_default == 60
window == 2000

NoneVal == "None"

\* The index: whether it exists, and the vectors it holds.
Missing == [exists |-> FALSE, vectors |-> {}]
IndexOf(S) == [exists |-> TRUE, vectors |-> S]

Range(seq) == {seq[i] : i \in 1..Len(seq)}

-----------------------------------------------------------------------------
(* Decision dates.  A string whose characters matter is a sequence of        *)
(* one-character strings; an optional value is <<>> (None) or <<value>>.     *)

Digits == {"0", "1", "2", "3", "4", "5", "6", "7", "8", "9"}

FEB032025 == <<"F", "E", "B", "0", "3", "2", "0", "2", "5">>

\* The month codes of a raw date token and the names they are cited with.
MonthTable ==
    << [code |-> <<"J", "A", "N">>, name |-> <<"J", "a", "n">>],
       [code |-> <<"F", "E", "B">>, name |-> <<"F", "e", "b">>],
       [code |-> <<"M", "A", "R">>, name |-> <<"M", "a", "r">>],
       [code |-> <<"A", "P", "R">>, name |-> <<"A", "p", "r">>],
       [code |-> <<"M", "A", "Y">>, name |-> <<"M", "a", "y">>],
       [code |-> <<"J", "U", "N">>, name |-> <<"J", "u", "n">>],
       [code |-> <<"J", "U", "L">>, name |-> <<"J", "u", "l">>],
       [code |-> <<"A", "U", "G">>, name |-> <<"A", "u", "g">>],
       [code |-> <<"S", "E", "P">>, name |-> <<"S", "e", "p">>],
       [code |-> <<"O", "C", "T">>, name |-> <<"O", "c", "t">>],
       [code |-> <<"N", "O", "V">>, name |-> <<"N", "o", "v">>],
       [code |-> <<"D", "E", "C">>, name |-> <<"D", "e", "c">>] >>

\* The conversion the formatting task asks for (tasks.py line 96):
\* 'MMMDDYYYY' to 'Mon DD, YYYY', FEB032025 to Feb 03, 2025.
FormatDate(raw) ==
    LET entries == {e \in Range(MonthTable) : Len(raw) = 9 /\ e.code = SubSeq(raw, 1, 3)}
    IN  IF entries = {} THEN raw
        ELSE (CHOOSE e \in entries : TRUE).name
                 \o <<" ", raw[4], raw[5], ",", " ">> \o SubSeq(raw, 6, 9)

-----------------------------------------------------------------------------
(* Vectors.  A vector is [id, score, decision_date]: score is the cosine     *)
(* similarity of the stored embedding with the embedding of the query text,  *)
(* as index.query reports it; decision_date is the optional date of the      *)
(* vector's metadata.                                                        *)

\* The corpus given to store_chunks: its odd chunks come from a file with a
\* date in its name, its even chunks from a file without one.
DecisionDateOf(i) == IF i % 2 = 1 THEN <<FEB032025>> ELSE <<>>

\* The embedding capability on chunk i of a corpus: its similarity to the query.
\* 40 is coprime to 101, so neighbouring chunks get different scores; chunk 1
\* scores exactly 0.40.
Similarity(i) == (i * 40) % 101

\* One vector of the batch built at lines 300-326: id is the chunk's id
\* (a fresh uuid per chunk: the call number and the position).
VectorOf(g, i) ==
    [id |-> <<g, i>>, score |-> Similarity(i), decision_date |-> DecisionDateOf(i)]

\* Mutant: the slice starts one chunk early.
BatchOf_Overlap(i, n) == {k \in 1..n : i <= k /\ k <= i + batch_size}

\* chunks[i:i + batch_size], as 1-based positions
BatchOf(i, n) == {k \in 1..n : i < k /\ k <= i + batch_size}

VectorsOfBatch(g, i, n) == {VectorOf(g, k) : k \in BatchOf(i, n)}

AllVectors(g, n) == {VectorOf(g, k) : k \in 1..n}

\* The lengths of chunk lists given to store_chunks.
ChunkCounts == {0, 3, MaxChunks}

\* An index that exists before any ingestion of the model.
PreExisting ==
    IndexOf({[id |-> <<0, 1>>, score |-> 90, decision_date |-> <<FEB032025>>],
             [id |-> <<0, 2>>, score |-> 30, decision_date |-> <<>>],
             [id |-> <<0, 3>>, score |-> 70, decision_date |-> <<>>]})

-----------------------------------------------------------------------------
(* The similarity store's query: the top_k nearest vectors, ranked. *)

MaxScored(S) == {v \in S : \A w \in S : w.score <= v.score}

RECURSIVE Ranked(_, _)
\* Every ranking of the k best vectors of S, best first (ties in any order).
Ranked(S, k) ==
    IF k = 0 \/ S = {} THEN {<<>>}
    ELSE UNION {{<<v>> \o r : r \in Ranked(S \ {v}, k - 1)} : v \in MaxScored(S)}

\* search_results['matches'] of index.query(vector, top_k, include_metadata=True)
StoreQuery(idx, top_k) == Ranked(idx.vectors, top_k)

(* search_similar's loop over the matches: keep those with score >= threshold, *)
(* in the order the store gave them.                                           *)

\* Mutant: the comparison made strict.
KeepsMatch_Strict(score, score_threshold) == score > score_threshold

\* Line 360: result['score'] >= score_threshold
KeepsMatch(score, score_threshold) == score >= score_threshold

RECURSIVE FilterMatches_Prepend(_, _)
\* Mutant: each kept match is inserted at the front of the results.
FilterMatches_Prepend(matches, score_threshold) ==
    IF matches = <<>> THEN <<>>
    ELSE LET rest == FilterMatches_Prepend(Tail(matches), score_threshold)
         IN  IF KeepsMatch(Head(matches).score, score_threshold)
             THEN rest \o <<Head(matches)>>
             ELSE rest

\* Mutant: when nothing clears the threshold the best match is returned anyway.
FilterMatches_KeepBest(matches, score_threshold) ==
    LET kept == SelectSeq(matches, LAMBDA m : KeepsMatch(m.score, score_threshold))
    IN  IF kept = <<>> /\ matches # <<>> THEN <<Head(matches)>> ELSE kept

RECURSIVE FilterMatches(_, _)
FilterMatches(matches, score_threshold) ==
    IF matches = <<>> THEN <<>>
    ELSE LET rest == FilterMatches(Tail(matches), score_threshold)
         IN  IF KeepsMatch(Head(matches).score, score_threshold)
             THEN <<Head(matches)>> \o rest
             ELSE rest

-----------------------------------------------------------------------------
(* PineconeSearchTool._run and PineconeVectorStore.search_similar *)

SearchIdle ==
    [pc |-> "idle", caller |-> NoneVal, top_k |-> 0, score_threshold |-> 0,
     matches |-> <<>>, results |-> <<>>,
     \* history, not code state: whether the store failed in this call, the index
     \* content the store's query ran against, and where ingestion stood then
     storeDown |-> FALSE, observed |-> Missing, ingestAt |-> NoneVal, genAt |-> 0]

\* What _run hands back to its caller.
\* Where ingestion stands: the position of store_chunks, or how it ended.
IngestPhase == IF ipc = "done" THEN storeResult.status ELSE ipc

NoToolOutput == [kind |-> "none", hits |-> <<>>, score_threshold |-> 0]
ToolError == [kind |-> "error", hits |-> <<>>, score_threshold |-> 0]
ToolInfo(th) == [kind |-> "info", hits |-> <<>>, score_threshold |-> th]
ToolResults(hits) == [kind |-> "results", hits |-> hits, score_threshold |-> 0]

\* Mutant: an empty result list is returned as it is.
ToolOutput_EmptyList(results, th) == ToolResults(results)

\* Lines 266-269 of tools.py: an empty result list becomes one informational entry.
ToolOutput(results, th) ==
    IF results = <<>> THEN ToolInfo(th) ELSE ToolResults(results)

\* _run up to the call of search_similar: the API key is read and the vector store
\* constructed (either may fail: the tool then returns one error entry at once).
ToolRun(caller, top_k, th) ==
    /\ srch.pc = "idle"
    /\ \E env_ok \in BOOLEAN :
         IF env_ok
         THEN /\ srch' = [SearchIdle EXCEPT !.pc = "search_index", !.caller = caller,
                                            !.top_k = top_k, !.score_threshold = th]
              /\ toolOut' = NoToolOutput
         ELSE /\ srch' = SearchIdle
              /\ toolOut' = ToolError

\* Mutant: a search that finds no index creates an empty one.
SearchIndex_CreateIfMissing ==
    /\ srch.pc = "search_index"
    /\ \E ok \in BOOLEAN :
         IF ok
         THEN /\ srch' = [srch EXCEPT !.pc = "search_query"]
              /\ index' = IF index.exists THEN index ELSE IndexOf({})
         ELSE /\ srch' = [srch EXCEPT !.pc = "search_done", !.results = <<>>,
                                      !.storeDown = TRUE, !.observed = index,
                                      !.ingestAt = IngestPhase, !.genAt = gen]
              /\ UNCHANGED index
    /\ UNCHANGED <<corpusVars, toolOut, ingestVars, queryVars>>

\* search_similar, lines 348-349: the index handle and the query's embedding.
\* A missing index or a failing capability raises; line 375 turns that into [].
SearchIndex ==
    /\ srch.pc = "search_index"
    /\ \E ok \in BOOLEAN :
         IF ok /\ index.exists
         THEN srch' = [srch EXCEPT !.pc = "search_query"]
         ELSE srch' = [srch EXCEPT !.pc = "search_done", !.results = <<>>,
                                   !.storeDown = TRUE, !.observed = index,
                                   !.ingestAt = IngestPhase, !.genAt = gen]
    /\ UNCHANGED <<corpusVars, index, toolOut, ingestVars, queryVars>>

\* search_similar, lines 352-377: the store's query and the threshold filter.
SearchQuery ==
    /\ srch.pc = "search_query"
    /\ \E ok \in BOOLEAN :
         IF ok /\ index.exists
         THEN \E matches \in StoreQuery(index, srch.top_k) :
                srch' = [srch EXCEPT !.pc = "search_done", !.matches = matches,
                                     !.results = FilterMatches(matches, srch.score_threshold),
                                     !.observed = index,
                                     !.ingestAt = IngestPhase, !.genAt = gen]
         ELSE srch' = [srch EXCEPT !.pc = "search_done", !.results = <<>>,
                                   !.storeDown = TRUE, !.observed = index,
                                   !.ingestAt = IngestPhase, !.genAt = gen]
    /\ UNCHANGED <<corpusVars, index, toolOut, ingestVars, queryVars>>

\* _run, lines 266-269: the tool returns to its caller.
ToolReturn ==
    /\ srch.pc = "search_done"
    /\ toolOut' = ToolOutput(srch.results, srch.score_threshold)
    /\ srch' = SearchIdle
    /\ hist' = IF srch.caller = "agent" /\ srch.storeDown
               THEN [hist EXCEPT !.stageFailed = TRUE]
               ELSE hist
    /\ UNCHANGED <<corpusVars, index, ingestVars, qpc, qrun, verdict, answer, iters>>

\* A client that runs the tool on its own (no query in progress).
DirectToolRun ==
    /\ qpc = "idle"
    /\ \E top_k \in 1..MaxTopK :
       \E th \in {score_threshold_prompt, score_threshold_tool_default,
                  score_threshold_default} :
         ToolRun("direct", top_k, th)
    /\ UNCHANGED <<corpusVars, index, ingestVars, queryVars>>

-----------------------------------------------------------------------------
(* PineconeVectorStore.store_chunks and create_index *)

\* The dict store_chunks returns, with the keys the code gives it.
index_name == "legal-documents"
embedding_dim == 384

NoStoreResult == [status |-> "none"]
\* Lines 283 and 341
StoreError(msg) == [status |-> "error", message |-> msg]
\* Lines 332-337
StoreSuccess(n) ==
    [status |-> "success", chunks_stored |-> n, index |-> index_name,
     embedding_dimension |-> embedding_dim]

\* Mutant: the index is created anew before the list is looked at.
StoreChunks_IndexFirst ==
    /\ ipc \in {"idle", "done"}
    /\ gen < MaxIngests
    /\ \E n \in ChunkCounts :
         /\ gen' = gen + 1
         /\ nchunks' = n
         /\ prevIndex' = index
         /\ batch_i' = 0
         /\ stored_count' = 0
         /\ IF n = 0
            THEN /\ ipc' = "done"
                 /\ storeResult' = StoreError("No chunks to store")
                 /\ index' = IndexOf({})
            ELSE /\ ipc' = "create_index"
                 /\ storeResult' = NoStoreResult
                 /\ UNCHANGED index
    /\ UNCHANGED <<corpusVars, searchVars, queryVars>>

\* store_chunks, lines 281-287: an empty list returns an error at once; otherwise
\* create_index is entered.
StoreChunks ==
    /\ ipc \in {"idle", "done"}
    /\ gen < MaxIngests
    /\ \E n \in ChunkCounts :
         /\ gen' = gen + 1
         /\ nchunks' = n
         /\ prevIndex' = index
         /\ batch_i' = 0
         /\ stored_count' = 0
         /\ IF n = 0
            THEN /\ ipc' = "done"
                 /\ storeResult' = StoreError("No chunks to store")
            ELSE /\ ipc' = "create_index"
                 /\ storeResult' = NoStoreResult
    /\ UNCHANGED <<corpusVars, index, searchVars, queryVars>>

\* Mutant: an index that exists is kept and used as it is.
CreateIndexDelete_Reuse ==
    /\ ipc = "create_index"
    /\ ipc' = IF index.exists THEN "batch" ELSE "create"
    /\ UNCHANGED <<corpusVars, index, storeResult, gen, nchunks, batch_i, stored_count, prevIndex,
                   searchVars, queryVars>>

\* create_index, lines 256-261: an existing index is deleted.  A failure is
\* re-raised (line 277) and store_chunks returns an error (line 341).
CreateIndexDelete ==
    /\ ipc = "create_index"
    /\ \E ok \in BOOLEAN :
         IF ok
         THEN /\ index' = Missing
              /\ ipc' = "create"
              /\ UNCHANGED storeResult
         ELSE /\ ipc' = "done"
              /\ storeResult' = StoreError("create_index failed")
              /\ UNCHANGED index
    /\ UNCHANGED <<corpusVars, gen, nchunks, batch_i, stored_count, prevIndex, searchVars, queryVars>>

\* create_index, lines 263-273: the new, empty index.
CreateIndexCreate ==
    /\ ipc = "create"
    /\ \E ok \in BOOLEAN :
         IF ok /\ ~index.exists
         THEN /\ index' = IndexOf({})
              /\ ipc' = "batch"
              /\ UNCHANGED storeResult
         ELSE /\ ipc' = "done"
              /\ storeResult' = StoreError("create_index failed")
              /\ UNCHANGED index
    /\ UNCHANGED <<corpusVars, gen, nchunks, batch_i, stored_count, prevIndex, searchVars, queryVars>>

\* Mutant: a failing batch removes the batches stored before it.
StoreBatch_Rollback ==
    /\ ipc = "batch"
    /\ batch_i < nchunks
    /\ \E ok \in BOOLEAN :
         IF ok /\ index.exists
         THEN /\ index' = IndexOf(index.vectors \cup VectorsOfBatch(gen, batch_i, nchunks))
              /\ stored_count' = stored_count + Cardinality(BatchOf(batch_i, nchunks))
              /\ batch_i' = batch_i + batch_size
              /\ IF batch_i + batch_size < nchunks
                 THEN UNCHANGED <<ipc, storeResult>>
                 ELSE /\ ipc' = "done"
                      /\ storeResult' =
                           StoreSuccess(stored_count + Cardinality(BatchOf(batch_i, nchunks)))
         ELSE /\ ipc' = "done"
              /\ storeResult' = StoreError("batch failed")
              /\ index' = IndexOf({})
              /\ UNCHANGED <<stored_count, batch_i>>
    /\ UNCHANGED <<corpusVars, gen, nchunks, prevIndex, searchVars, queryVars>>

\* Mutant: a failing batch is skipped and the loop goes on.
StoreBatch_SkipFailed ==
    /\ ipc = "batch"
    /\ batch_i < nchunks
    /\ \E ok \in BOOLEAN :
         /\ IF ok /\ index.exists
            THEN /\ index' = IndexOf(index.vectors
                                       \cup VectorsOfBatch(gen, batch_i, nchunks))
                 /\ stored_count' = stored_count + Cardinality(BatchOf(batch_i, nchunks))
            ELSE UNCHANGED <<index, stored_count>>
         /\ batch_i' = batch_i + batch_size
         /\ IF batch_i + batch_size < nchunks
            THEN UNCHANGED <<ipc, storeResult>>
            ELSE /\ ipc' = "done"
                 /\ storeResult' = StoreSuccess(stored_count')
    /\ UNCHANGED <<corpusVars, gen, nchunks, prevIndex, searchVars, queryVars>>

\* store_chunks, lines 293-337: one pass of the batch loop (embed, build the
\* vectors, upsert, count), and the return after the last batch.  A failing
\* embedding or upsert leaves the loop through line 339.
StoreBatch ==
    /\ ipc = "batch"
    /\ batch_i < nchunks
    /\ \E ok \in BOOLEAN :
         IF ok /\ index.exists
         THEN /\ index' = IndexOf(index.vectors \cup VectorsOfBatch(gen, batch_i, nchunks))
              /\ stored_count' = stored_count + Cardinality(BatchOf(batch_i, nchunks))
              /\ batch_i' = batch_i + batch_size
              /\ IF batch_i + batch_size < nchunks
                 THEN UNCHANGED <<ipc, storeResult>>
                 ELSE /\ ipc' = "done"
                      /\ storeResult' =
                           StoreSuccess(stored_count + Cardinality(BatchOf(batch_i, nchunks)))
         ELSE /\ ipc' = "done"
              /\ storeResult' = StoreError("batch failed")
              /\ UNCHANGED <<index, stored_count, batch_i>>
    /\ UNCHANGED <<corpusVars, gen, nchunks, prevIndex, searchVars, queryVars>>

-----------------------------------------------------------------------------
(* LegalRAGSystem.answer_query *)

\* A text is a sequence of tokens; " " and "\n" are its whitespace.
Whitespace == {" ", "\n", "\n\n"}

RECURSIVE LStrip(_)
LStrip(t) == IF t # <<>> /\ Head(t) \in Whitespace THEN LStrip(Tail(t)) ELSE t

RECURSIVE RStrip(_)
RStrip(t) ==
    IF t # <<>> /\ t[Len(t)] \in Whitespace THEN RStrip(SubSeq(t, 1, Len(t) - 1)) ELSE t

\* str.strip()
Strip(t) == LStrip(RStrip(t))

Sentinel == <<"OUT_OF_CONTEXT_QUERY">>

\* Mutant: the comparison without strip().
IsOutOfContext_NoStrip(search_result) == search_result = Sentinel

\* Lines 143-144: actual_result == "OUT_OF_CONTEXT_QUERY"
IsOutOfContext(search_result) == Strip(search_result) = Sentinel

\* What the retriever agent (a language model) may give as its final output.
Verdicts ==
    { Sentinel,
      <<" ", "OUT_OF_CONTEXT_QUERY", "\n">>,
      <<"The", " ", "query", " ", "is", " ", "OUT_OF_CONTEXT_QUERY">>,
      <<"[search results]">> }

\* What the formatter agent (a language model) may give as the final result: a
\* title, the analysis, the Sources heading and the source paragraph.
FormatterOutputs == { <<"# Title", "\n", "analysis", "\n", "**Sources:**", " ", "sources">> }

\* The character counts the analysis may have: the prompt asks for 1000-1750
\* (line 89), the expected output for 750-1500 (line 113); nothing measures it.
BodyLengths == {750, 1200, 1800}

\* How the formatter may write the date of a source: converted as the prompt
\* asks, copied as stored, or a date of its own making.
CitationStyles == {"table", "verbatim", "fabricate"}

\* One entry of the source paragraph, for one search result of the context.
Cite(hit, style) ==
    [id   |-> hit.id,
     date |-> CASE style = "table" ->
                     IF hit.decision_date = <<>> THEN <<>>
                     ELSE <<FormatDate(hit.decision_date[1])>>
                [] style = "verbatim" -> hit.decision_date
                [] style = "fabricate" -> <<FormatDate(FEB032025)>>]

WarningSign == "WARNING SIGN "
RefusalMessage ==
    <<"Your query is outside my area of expertise, which focuses on USCIS AAO decisions and U.S. immigration law. I cannot assist with this topic.">>
CrewError(e) == <<WarningSign, "Error in RAG processing: ", e>>
SystemError(e) == <<WarningSign, "System error: ", e>>
IsErrorString(a) == Len(a) > 0 /\ a[1] = WarningSign

Exceptions == {"capability failure"}

Returned == {"ret_refusal", "ret_final", "ret_crew_error", "ret_system_error"}

\* searchCalls, composeCalls, stageFailed and prevFailed are counters and flags
\* of the history (prevFailed: the answer_query call before this one failed);
\* searchRuns counts the executions of the search task, kickoffHits is what the
\* tool gave the retriever in search_crew, context what it gave the retriever in
\* full_crew (the context of the formatting task); bodyChars and citations
\* describe the formatter's text: the length of its analysis and the entries of
\* its source paragraph; rerun is the retriever's output when the search task
\* runs again in full_crew.
HistInit ==
    [searchCalls |-> 0, composeCalls |-> 0, stageFailed |-> FALSE, prevFailed |-> FALSE,
     searchRuns |-> 0, kickoffHits |-> NoToolOutput, context |-> NoToolOutput,
     bodyChars |-> 0, citations |-> <<>>, rerun |-> <<>>]

\* Whether the answer_query call that has just returned failed.
PrevFailed == qpc \in {"ret_crew_error", "ret_system_error"} \/ hist.stageFailed

\* What the tool gave the agent that is running (nothing when it made no call).
Retrieved == IF iters > 0 THEN toolOut ELSE NoToolOutput

\* The orchestrator state (spec 4.4) of each position of answer_query.
OrchStateOf(pc) ==
    CASE pc = "idle"             -> "Idle"
      [] pc = "search_kickoff"   -> "Classifying"
      [] pc = "full_search"      -> "Retrieving"
      [] pc = "full_format"      -> "Composing"
      [] pc = "ret_refusal"      -> "OutOfContext"
      [] pc = "ret_final"        -> "Done"
      [] pc = "ret_crew_error"   -> "Errored"
      [] pc = "ret_system_error" -> "Errored"

\* Lines 121-134: the search task and its crew are built; line 138 starts the crew.
\* An exception here reaches the outer handler (line 184).
AnswerQuery ==
    /\ qpc \in {"idle"} \cup Returned
    /\ srch.pc = "idle"
    /\ qrun < MaxQueries
    /\ qrun' = qrun + 1
    /\ verdict' = <<>>
    /\ iters' = 0
    /\ \E ok \in BOOLEAN :
         IF ok
         THEN /\ qpc' = "search_kickoff"
              /\ answer' = <<>>
              /\ hist' = [HistInit EXCEPT !.prevFailed = PrevFailed, !.searchRuns = 1]
         ELSE \E e \in Exceptions :
              /\ qpc' = "ret_system_error"
              /\ answer' = SystemError(e)
              /\ hist' = [HistInit EXCEPT !.prevFailed = PrevFailed, !.stageFailed = TRUE]
    /\ UNCHANGED <<corpusVars, index, ingestVars, searchVars>>

\* The retriever agent (agents.py 50-69) calls PineconeSearchTool; it may do so
\* while it runs in either crew, at most max_iter times.
AgentToolCall ==
    /\ qpc \in {"search_kickoff", "full_search"}
    /\ iters < max_iter
    /\ \E th \in {score_threshold_prompt, score_threshold_tool_default} :
         ToolRun("agent", top_k_prompt, th)
    /\ iters' = iters + 1
    /\ hist' = IF srch'.pc = "search_index"
               THEN [hist EXCEPT !.searchCalls = @ + 1]
               ELSE [hist EXCEPT !.stageFailed = TRUE]
    /\ UNCHANGED <<corpusVars, index, ingestVars, qpc, qrun, verdict, answer>>

\* Lines 138-169: search_crew.kickoff() returns (or raises), the verdict is
\* compared with the sentinel, and either the refusal is returned or the
\* formatting task and the full crew are built and started.
SearchKickoffReturns ==
    /\ qpc = "search_kickoff"
    /\ srch.pc = "idle"
    /\ \/ \E v \in Verdicts :
            /\ verdict' = v
            /\ IF IsOutOfContext(v)
               THEN /\ qpc' = "ret_refusal"
                    /\ answer' = RefusalMessage
                    /\ hist' = [hist EXCEPT !.kickoffHits = Retrieved]
                    /\ UNCHANGED iters
               ELSE \E ok \in BOOLEAN :
                      IF ok
                      THEN /\ qpc' = "full_search"
                           /\ iters' = 0
                           /\ hist' = [hist EXCEPT !.kickoffHits = Retrieved,
                                                    !.searchRuns = @ + 1]
                           /\ UNCHANGED answer
                      ELSE \E e \in Exceptions :
                           /\ qpc' = "ret_crew_error"
                           /\ answer' = CrewError(e)
                           /\ hist' = [hist EXCEPT !.kickoffHits = Retrieved,
                                                    !.stageFailed = TRUE]
                           /\ UNCHANGED iters
       \/ \E e \in Exceptions :
            /\ qpc' = "ret_crew_error"
            /\ answer' = CrewError(e)
            /\ hist' = [hist EXCEPT !.stageFailed = TRUE]
            /\ UNCHANGED <<verdict, iters>>
    /\ UNCHANGED <<corpusVars, index, ingestVars, searchVars, qrun>>

\* Mutant: the output of the second run is compared with the sentinel too.
FullSearchReturns_Recheck ==
    /\ qpc = "full_search"
    /\ srch.pc = "idle"
    /\ \E ok \in BOOLEAN :
         IF ok
         THEN \E v \in Verdicts :
              IF IsOutOfContext(v)
              THEN /\ qpc' = "ret_refusal"
                   /\ answer' = RefusalMessage
                   /\ hist' = [hist EXCEPT !.context = Retrieved, !.rerun = v]
              ELSE /\ qpc' = "full_format"
                   /\ hist' = [hist EXCEPT !.composeCalls = @ + 1, !.context = Retrieved,
                                            !.rerun = v]
                   /\ UNCHANGED answer
         ELSE \E e \in Exceptions :
              /\ qpc' = "ret_crew_error"
              /\ answer' = CrewError(e)
              /\ hist' = [hist EXCEPT !.stageFailed = TRUE]
    /\ UNCHANGED <<corpusVars, index, ingestVars, searchVars, qrun, verdict, iters>>

\* Line 172, first task of full_crew: the search task has run again, with
\* whatever output the retriever gives this time, and the formatting task
\* starts; or the crew raises (line 180).
FullSearchReturns ==
    /\ qpc = "full_search"
    /\ srch.pc = "idle"
    /\ \E ok \in BOOLEAN :
         IF ok
         THEN \E v \in Verdicts :
              /\ qpc' = "full_format"
              /\ hist' = [hist EXCEPT !.composeCalls = @ + 1, !.context = Retrieved,
                                       !.rerun = v]
              /\ UNCHANGED answer
         ELSE \E e \in Exceptions :
              /\ qpc' = "ret_crew_error"
              /\ answer' = CrewError(e)
              /\ hist' = [hist EXCEPT !.stageFailed = TRUE]
    /\ UNCHANGED <<corpusVars, index, ingestVars, searchVars, qrun, verdict, iters>>

\* Lines 172-182, second task of full_crew: the formatter's text is returned
\* as a string; or the crew raises.
FormatReturns ==
    /\ qpc = "full_format"
    /\ \E ok \in BOOLEAN :
         IF ok
         THEN \E text \in FormatterOutputs, n \in BodyLengths, style \in CitationStyles :
              /\ qpc' = "ret_final"
              /\ answer' = text
              /\ hist' = [hist EXCEPT
                            !.bodyChars = n,
                            !.citations = [i \in 1..Len(hist.context.hits) |->
                                             Cite(hist.context.hits[i], style)]]
         ELSE \E e \in Exceptions :
              /\ qpc' = "ret_crew_error"
              /\ answer' = CrewError(e)
              /\ hist' = [hist EXCEPT !.stageFailed = TRUE]
    /\ UNCHANGED <<corpusVars, index, ingestVars, searchVars, qrun, verdict, iters>>

-----------------------------------------------------------------------------
(* DocumentProcessor: process_pdf and the extraction of its metadata *)

\* A PDF file: its name, whether pdfplumber reads it without raising, and the
\* text page.extract_text() gives for each page (a text is a sequence of tokens).
TextPage ==
    <<"Extraordinary Ability", " ", "petition", "\n\n", "ORDER:", " ", "appeal is dismissed">>

PageTexts == {<<>>, <<" ", "\n">>, TextPage}

RECURSIVE SeqsUpTo(_, _)
\* The sequences over S of length at most n
SeqsUpTo(S, n) ==
    IF n = 0 THEN {<<>>}
    ELSE LET shorter == SeqsUpTo(S, n - 1)
         IN  shorter \cup {Append(q, x) : q \in {r \in shorter : Len(r) = n - 1}, x \in S}

Filenames ==
    { FEB032025 \o <<".", "p", "d", "f">>,
      <<"2", "0", "2", "5", "_", "0", "2", "_", "0", "3", ".", "p", "d", "f">>,
      <<"D", "E", "C", "2", "5", "2", "0", "2", "4", ".", "p", "d", "f">> }

\* The files of the model: every file name on a one-page document, every list
\* of pages under one file name, and a file that cannot be read.
Documents ==
    {[filename |-> f, readable |-> TRUE, pages |-> <<TextPage>>] : f \in Filenames}
    \cup {[filename |-> FEB032025 \o <<".", "p", "d", "f">>, readable |-> TRUE, pages |-> p] :
             p \in SeqsUpTo(PageTexts, MaxPages)}
    \cup {[filename |-> FEB032025 \o <<".", "p", "d", "f">>, readable |-> FALSE,
            pages |-> <<>>]}

\* re.search(pattern, filename): the leftmost match, given the length of the
\* pattern's match at each position (0 when it does not match there).
ReSearch(match_len, s) ==
    LET starts == {p \in 1..Len(s) : match_len[p] > 0}
    IN  IF starts = {} THEN <<>>
        ELSE LET p == CHOOSE q \in starts : \A r \in starts : q <= r
             IN  <<SubSeq(s, p, p + match_len[p] - 1)>>

\* \d{n} at position p
DigitsAt(s, p, n) == p + n - 1 <= Len(s) /\ \A k \in p..(p + n - 1) : s[k] \in Digits

CharAt(s, p, c) == p <= Len(s) /\ s[p] = c

\* Line 148: FEB\d{2}2025
MatchFeb(s, p) ==
    IF /\ p + 8 <= Len(s)
       /\ SubSeq(s, p, p + 2) = <<"F", "E", "B">>
       /\ DigitsAt(s, p + 3, 2)
       /\ SubSeq(s, p + 5, p + 8) = <<"2", "0", "2", "5">>
    THEN 9 ELSE 0

\* Line 149: \d{4}_\d{2}_\d{2}
MatchYmd(s, p) ==
    IF /\ DigitsAt(s, p, 4) /\ CharAt(s, p + 4, "_")
       /\ DigitsAt(s, p + 5, 2) /\ CharAt(s, p + 7, "_")
       /\ DigitsAt(s, p + 8, 2)
    THEN 10 ELSE 0

\* Line 150: \d{1,2}/\d{1,2}/\d{4}, the longer alternatives tried first
MatchMdy(s, p) ==
    LET fits(a, b) == /\ DigitsAt(s, p, a) /\ CharAt(s, p + a, "/")
                      /\ DigitsAt(s, p + a + 1, b) /\ CharAt(s, p + a + 1 + b, "/")
                      /\ DigitsAt(s, p + a + b + 2, 4)
    IN  CASE fits(2, 2) -> 10
          [] fits(2, 1) -> 9
          [] fits(1, 2) -> 9
          [] fits(1, 1) -> 8
          [] OTHER      -> 0

\* extract_decision_date: the first pattern that matches the file name
extract_decision_date(filename) ==
    LET feb == ReSearch([p \in 1..Len(filename) |-> MatchFeb(filename, p)], filename)
        ymd == ReSearch([p \in 1..Len(filename) |-> MatchYmd(filename, p)], filename)
        mdy == ReSearch([p \in 1..Len(filename) |-> MatchMdy(filename, p)], filename)
    IN  IF feb # <<>> THEN feb ELSE IF ymd # <<>> THEN ymd ELSE mdy

\* Mutant: the marker that comes first in the text decides.
extract_petition_type_FirstInText(text) ==
    LET markers == {"Extraordinary Ability", "Outstanding Professor", "Multinational Manager"}
        at      == {p \in 1..Len(text) : text[p] \in markers}
    IN  IF at = {} THEN <<"I-140">>
        ELSE LET m == text[CHOOSE p \in at : \A q \in at : p <= q]
             IN  CASE m = "Extraordinary Ability" -> <<"EB-1A Extraordinary Ability">>
                   [] m = "Outstanding Professor" -> <<"EB-1B Outstanding Professor">>
                   [] m = "Multinational Manager" -> <<"EB-1C Multinational Manager">>

\* _extract_petition_type: the first marker of the if-chain that is in the text
extract_petition_type(text) ==
    IF "Extraordinary Ability" \in Range(text) THEN <<"EB-1A Extraordinary Ability">>
    ELSE IF "Outstanding Professor" \in Range(text) THEN <<"EB-1B Outstanding Professor">>
    ELSE IF "Multinational Manager" \in Range(text) THEN <<"EB-1C Multinational Manager">>
    ELSE <<"I-140">>

\* Lines 180-184 and 196-200: the outcome groups in the order of the dict
outcome_keywords ==
    << [outcome  |-> "Approved/Sustained",
        keywords |-> {"appeal is sustained", "petition is approved", "motion is granted",
                      "request is granted"}],
       [outcome  |-> "Denied/Dismissed",
        keywords |-> {"appeal is dismissed", "petition is denied", "motion is denied",
                      "request is denied"}],
       [outcome  |-> "Remanded",
        keywords |-> {"remand", "remanded", "return to", "additional evidence"}] >>

\* The first group with a keyword in the text, or None
FirstOutcome(text) ==
    LET found == {g \in 1..Len(outcome_keywords) :
                     outcome_keywords[g].keywords \cap Range(text) # {}}
    IN  IF found = {} THEN <<>>
        ELSE <<outcome_keywords[CHOOSE g \in found : \A h \in found : g <= h].outcome>>

\* Line 174: the text after the first ORDER: up to the next blank line (two
\* newlines in a row) or the end
OrderText(text) ==
    LET starts == {p \in 1..Len(text) : text[p] = "ORDER:"}
    IN  IF starts = {} THEN <<>>
        ELSE LET p    == CHOOSE q \in starts : \A r \in starts : q <= r
                 ends == {e \in (p + 1)..Len(text) :
                             \/ text[e] = "\n\n"
                             \/ /\ text[e] = "\n"
                                /\ e < Len(text)
                                /\ text[e + 1] \in {"\n", "\n\n"}}
                 e    == IF ends = {} THEN Len(text) + 1
                         ELSE CHOOSE x \in ends : \A y \in ends : x <= y
             IN  SubSeq(text, p + 1, e - 1)

\* The length of a text in characters.  Filler stands for 2000 characters
\* without a marker, a keyword or a blank line.
Filler == "(2000 characters of other text)"

TokenLen(token) == IF token = Filler THEN window ELSE Len(token)

RECURSIVE TextLen(_)
TextLen(text) == IF text = <<>> THEN 0 ELSE TokenLen(Head(text)) + TextLen(Tail(text))

\* text[:n] and text[-n:].  A slice that ends inside a token loses that token:
\* in the texts of the model only a Filler is ever cut.
FirstChars(text, n) ==
    LET fit == {k \in 0..Len(text) : TextLen(SubSeq(text, 1, k)) <= n}
    IN  SubSeq(text, 1, CHOOSE k \in fit : \A j \in fit : j <= k)

LastChars(text, n) ==
    LET fit == {k \in 0..Len(text) : TextLen(SubSeq(text, Len(text) - k + 1, Len(text))) <= n}
        k   == CHOOSE x \in fit : \A j \in fit : j <= x
    IN  SubSeq(text, Len(text) - k + 1, Len(text))

\* Mutant: the keywords are looked for in the whole text, ORDER: section or not.
extract_decision_outcome_WholeText(text) == FirstOutcome(text)

\* Mutant: the fallback scans the whole text, not its first and last 2000
\* characters.
extract_decision_outcome_NoWindow(text) ==
    LET order_text == OrderText(LastChars(text, window))
    IN  IF FirstOutcome(order_text) # <<>> THEN FirstOutcome(order_text)
        ELSE FirstOutcome(text)

\* _extract_decision_outcome: the ORDER: section of the last 2000 characters
\* (lines 173-189), then the first and the last 2000 characters (191-207)
extract_decision_outcome(text) ==
    LET order_text == OrderText(LastChars(text, window))
    IN  IF FirstOutcome(order_text) # <<>> THEN FirstOutcome(order_text)
        ELSE FirstOutcome(FirstChars(text, window) \o <<" ">> \o LastChars(text, window))

\* chunk.split(): the words of a text
Words(text) == Range(text) \ Whitespace

RECURSIVE FindPageFrom(_, _, _, _, _)
\* The loop of _find_page_for_chunk from page k on
FindPageFrom(chunk, page_texts, k, max_overlap, best_page) ==
    IF k > Len(page_texts) THEN best_page
    ELSE LET overlap == Cardinality(Words(chunk) \cap Words(page_texts[k]))
         IN  IF overlap > max_overlap
             THEN FindPageFrom(chunk, page_texts, k + 1, overlap, k)
             ELSE FindPageFrom(chunk, page_texts, k + 1, max_overlap, best_page)

\* Mutant: among the pages with the largest overlap the last one is taken.
find_page_for_chunk_LastWins(chunk, page_texts) ==
    LET ov(p) == Cardinality(Words(chunk) \cap Words(page_texts[p]))
        pages == 1..Len(page_texts)
    IN  IF pages = {} THEN 1
        ELSE CHOOSE p \in pages :
               \A q \in pages : ov(q) < ov(p) \/ (ov(q) = ov(p) /\ q <= p)

find_page_for_chunk(chunk, page_texts) == FindPageFrom(chunk, page_texts, 1, 0, 1)

\* The marker line 57 puts before the text of page n
PageMarkers == <<"--- Page 1 ---", "--- Page 2 ---", "--- Page 3 ---">>

PageMarker(n) == <<"\n", PageMarkers[n], "\n">>

RECURSIVE FullTextOf(_, _)
\* Lines 49-57: full_text after the first n pages
FullTextOf(pages, n) ==
    IF n = 0 THEN <<>> ELSE FullTextOf(pages, n - 1) \o PageMarker(n) \o pages[n]

RECURSIVE SplitText(_)
\* text_splitter.split_text: the text is cut at its paragraph breaks (each
\* paragraph of the model stands for text that fills one chunk), each piece is
\* stripped and the empty pieces are dropped.
SplitText(text) ==
    LET breaks == {p \in 1..Len(text) : text[p] = "\n\n"}
    IN  IF breaks = {}
        THEN IF Strip(text) = <<>> THEN <<>> ELSE <<Strip(text)>>
        ELSE LET p     == CHOOSE q \in breaks : \A r \in breaks : q <= r
                 first == Strip(SubSeq(text, 1, p - 1))
                 rest  == SplitText(SubSeq(text, p + 1, Len(text)))
             IN  IF first = <<>> THEN rest ELSE <<first>> \o rest

\* str.find: the 0-based position of the first occurrence, -1 when there is none
Find(text, sub) ==
    LET at == {p \in 1..(Len(text) - Len(sub) + 1) : SubSeq(text, p, p + Len(sub) - 1) = sub}
    IN  IF at = {} THEN 0 - 1 ELSE (CHOOSE p \in at : \A q \in at : p <= q) - 1

\* Line 59: not full_text.strip()
IsBlank(full_text) == Strip(full_text) = <<>>

\* Mutant: the numbering starts at 1.
Enumerate_FromOne(items) == [i \in 1..Len(items) |-> [idx |-> i, item |-> items[i]]]

\* enumerate(text_chunks), line 79
Enumerate(items) == [i \in 1..Len(items) |-> [idx |-> i - 1, item |-> items[i]]]

\* process_pdf(pdf_path); k names the ids of its chunks (uuid4 gives fresh ones).
\* A file that raises, and a file whose full_text is blank, give [].
process_pdf(doc, k) ==
    IF ~doc.readable THEN <<>>
    ELSE LET full_text   == FullTextOf(doc.pages, Len(doc.pages))
             text_chunks == Enumerate(SplitText(full_text))
         IN  IF IsBlank(full_text) THEN <<>>
             ELSE [i \in 1..Len(text_chunks) |->
                     [id               |-> <<k, i - 1>>,
                      text             |-> Strip(text_chunks[i].item),
                      source_file      |-> doc.filename,
                      page_number      |-> find_page_for_chunk(text_chunks[i].item, doc.pages),
                      chunk_index      |-> <<text_chunks[i].idx>>,
                      start_char       |-> <<Find(full_text, text_chunks[i].item)>>,
                      end_char         |-> <<Find(full_text, text_chunks[i].item)
                                                + Len(text_chunks[i].item)>>,
                      decision_date    |-> extract_decision_date(doc.filename),
                      petition_type    |-> extract_petition_type(full_text),
                      decision_outcome |-> extract_decision_outcome(full_text)]]

-----------------------------------------------------------------------------
(* The metadata store_chunks writes with each vector (lines 300-326).  Every *)
(* value of a payload is written <<value>>; <<>> would be a null.            *)

\* if chunk.get(field): the value is there and is not the empty string
Truthy(opt, empty) == opt # <<>> /\ opt[1] # empty

OptionalFields ==
    {"chunk_index", "start_char", "end_char", "decision_date", "petition_type",
     "decision_outcome"}

\* Mutant: every field of the chunk is written, absent or not.
MetadataKeys_All(chunk) == {"text", "source_file", "page_number"} \cup OptionalFields

\* The keys of the metadata dict: lines 302-306 and the tests of lines 308-318
MetadataKeys(chunk) ==
    {"text", "source_file", "page_number"}
    \cup {f \in {"chunk_index", "start_char", "end_char"} : chunk[f] # <<>>}
    \cup {f \in {"decision_date"} : Truthy(chunk[f], <<>>)}
    \cup {f \in {"petition_type", "decision_outcome"} : Truthy(chunk[f], "")}

Metadata(chunk) ==
    [f \in MetadataKeys(chunk) |->
        IF f \in {"text", "source_file", "page_number"} THEN <<chunk[f]>> ELSE chunk[f]]

\* Lines 321-325: vector_data without its embedding
VectorData(chunk) == [id |-> chunk.id, metadata |-> Metadata(chunk)]

-----------------------------------------------------------------------------
(* DocumentProcessor.process_all_pdfs and setup_complete_system *)

StatsInit == [successful |-> 0, failed |-> 0, total_chunks |-> 0]

\* Lines 107-120: a directory that does not exist or holds no PDF file (an empty
\* pdf_files) returns [] at once; otherwise the loop starts.
ProcessAllPdfs ==
    /\ ppc = "idle"
    /\ pdf_i' = 0
    /\ chunks' = <<>>
    /\ all_chunks' = <<>>
    /\ stats' = StatsInit
    /\ ppc' = IF pdf_files = <<>> THEN "returned" ELSE "loop"
    /\ UNCHANGED <<pdf_files, payloads, index, ingestVars, searchVars, queryVars>>

\* Mutant: the loop ends at the first file that gives no chunks.
ProcessPdf_StopOnFailure ==
    /\ ppc = "loop"
    /\ pdf_i < Len(pdf_files)
    /\ LET result == process_pdf(pdf_files[pdf_i + 1], pdf_i + 1)
       IN  /\ chunks' = result
           /\ pdf_i' = pdf_i + 1
           /\ IF result # <<>>
              THEN /\ all_chunks' = all_chunks \o result
                   /\ stats' = [stats EXCEPT !.successful = @ + 1,
                                             !.total_chunks = @ + Len(result)]
                   /\ UNCHANGED ppc
              ELSE /\ stats' = [stats EXCEPT !.failed = @ + 1]
                   /\ ppc' = "returned"
                   /\ UNCHANGED all_chunks
    /\ UNCHANGED <<pdf_files, payloads, index, ingestVars, searchVars, queryVars>>

\* Lines 122-133: one pass of the loop, process_pdf on the next file included
ProcessPdf ==
    /\ ppc = "loop"
    /\ pdf_i < Len(pdf_files)
    /\ LET result == process_pdf(pdf_files[pdf_i + 1], pdf_i + 1)
       IN  /\ chunks' = result
           /\ pdf_i' = pdf_i + 1
           /\ IF result # <<>>
              THEN /\ all_chunks' = all_chunks \o result
                   /\ stats' = [stats EXCEPT !.successful = @ + 1,
                                             !.total_chunks = @ + Len(result)]
              ELSE /\ stats' = [stats EXCEPT !.failed = @ + 1]
                   /\ UNCHANGED all_chunks
    /\ UNCHANGED <<ppc, pdf_files, payloads, index, ingestVars, searchVars, queryVars>>

\* Lines 135-142: the loop is over, all_chunks is returned
ProcessAllReturn ==
    /\ ppc = "loop"
    /\ pdf_i = Len(pdf_files)
    /\ ppc' = "returned"
    /\ UNCHANGED <<pdf_files, pdf_i, chunks, all_chunks, stats, payloads,
                   index, ingestVars, searchVars, queryVars>>

\* setup_complete_system, lines 391-401: without chunks an error is returned;
\* otherwise store_chunks is called with the chunks (up to its create_index),
\* and builds one vector per chunk.
SetupStore ==
    /\ ppc = "returned"
    /\ ipc \in {"idle", "done"}
    /\ IF all_chunks = <<>>
       THEN /\ ppc' = "setup_error"
            /\ UNCHANGED <<payloads, ingestVars>>
       ELSE /\ ppc' = "stored"
            /\ payloads' = [i \in 1..Len(all_chunks) |-> VectorData(all_chunks[i])]
            /\ gen' = gen + 1
            /\ nchunks' = Len(all_chunks)
            /\ prevIndex' = index
            /\ batch_i' = 0
            /\ stored_count' = 0
            /\ ipc' = "create_index"
            /\ storeResult' = NoStoreResult
    /\ UNCHANGED <<pdf_files, pdf_i, chunks, all_chunks, stats,
                   index, searchVars, queryVars>>

-----------------------------------------------------------------------------
(* Specifications *)

CorpusInit ==
    /\ pdf_files = <<>>
    /\ ppc = "idle"
    /\ pdf_i = 0
    /\ chunks = <<>>
    /\ all_chunks = <<>>
    /\ stats = StatsInit
    /\ payloads = <<>>

IngestInit ==
    /\ ipc = "idle"
    /\ gen = 0
    /\ nchunks = 0
    /\ batch_i = 0
    /\ stored_count = 0
    /\ storeResult = NoStoreResult
    /\ prevIndex = Missing

QueryInit ==
    /\ qpc = "idle"
    /\ qrun = 0
    /\ verdict = <<>>
    /\ answer = <<>>
    /\ iters = 0
    /\ hist = HistInit

SearchInit ==
    /\ srch = SearchIdle
    /\ toolOut = NoToolOutput

\* Ingestion and searches over one index.
Init ==
    /\ index \in {Missing, IndexOf({}), PreExisting}
    /\ IngestInit
    /\ QueryInit
    /\ SearchInit
    /\ CorpusInit

Next ==
    \/ StoreChunks
    \/ CreateIndexDelete
    \/ CreateIndexCreate
    \/ StoreBatch
    \/ DirectToolRun
    \/ SearchIndex
    \/ SearchQuery
    \/ ToolReturn

Spec == Init /\ [][Next]_vars

\* Queries: answer_query, its agents and the search tool.
NextQuery ==
    \/ AnswerQuery
    \/ AgentToolCall
    \/ SearchIndex
    \/ SearchQuery
    \/ ToolReturn
    \/ SearchKickoffReturns
    \/ FullSearchReturns
    \/ FormatReturns

SpecQuery == Init /\ [][NextQuery]_vars

\* The search tool alone, on every small index content.
ScoreValues == {20, 40, 50, 60, 90}

SmallIndexes ==
    UNION {{{[id |-> <<0, i>>, score |-> f[i], decision_date |-> <<>>] : i \in 1..n} : f \in [1..n -> ScoreValues]}
           : n \in 0..MaxVectors}

InitSearch ==
    /\ index \in {IndexOf(S) : S \in SmallIndexes} \cup {Missing}
    /\ IngestInit
    /\ QueryInit
    /\ SearchInit
    /\ CorpusInit

NextSearch ==
    \/ DirectToolRun
    \/ SearchIndex
    \/ SearchQuery
    \/ ToolReturn

SpecSearch == InitSearch /\ [][NextSearch]_vars

\* The document pipeline: process_all_pdfs over a directory of PDF files, then
\* the vectors setup_complete_system stores for its chunks.
InitCorpus ==
    /\ index = Missing
    /\ IngestInit
    /\ QueryInit
    /\ SearchInit
    /\ pdf_files \in SeqsUpTo(Documents, MaxDocs)
    /\ ppc = "idle"
    /\ pdf_i = 0
    /\ chunks = <<>>
    /\ all_chunks = <<>>
    /\ stats = StatsInit
    /\ payloads = <<>>

NextCorpus ==
    \/ ProcessAllPdfs
    \/ ProcessPdf
    \/ ProcessAllReturn
    \/ SetupStore

SpecCorpus == InitCorpus /\ [][NextCorpus]_vars

\* The metadata classifier: process_pdf on one-page documents whose text is
\* any short sequence of petition markers, or of outcome keywords, ORDER:
\* headings, blank lines and long stretches of other text.
MarkerTokens ==
    {"Extraordinary Ability", "Outstanding Professor", "Multinational Manager", "petition"}

OutcomeTokens ==
    {"ORDER:", "\n\n", "petition is approved", "appeal is dismissed", "remand", Filler}

ExtractTexts == SeqsUpTo(MarkerTokens, MaxTokens) \cup SeqsUpTo(OutcomeTokens, MaxTokens)

InitExtract ==
    /\ index = Missing
    /\ IngestInit
    /\ QueryInit
    /\ SearchInit
    /\ pdf_files \in {<<[filename |-> FEB032025 \o <<".", "p", "d", "f">>,
                          readable |-> TRUE, pages |-> <<t>>]>> : t \in ExtractTexts}
    /\ ppc = "idle"
    /\ pdf_i = 0
    /\ chunks = <<>>
    /\ all_chunks = <<>>
    /\ stats = StatsInit
    /\ payloads = <<>>

SpecExtract == InitExtract /\ [][NextCorpus]_vars

\* setup_complete_system and store_chunks over an index that may exist: a small
\* directory is processed and stored, and store_chunks is also called directly.
SetupDocuments ==
    { [filename |-> FEB032025 \o <<".", "p", "d", "f">>, readable |-> FALSE, pages |-> <<>>],
      [filename |-> FEB032025 \o <<".", "p", "d", "f">>, readable |-> TRUE,
       pages |-> <<TextPage>>] }

InitSetup ==
    /\ index \in {Missing, PreExisting}
    /\ IngestInit
    /\ QueryInit
    /\ SearchInit
    /\ pdf_files \in SeqsUpTo(SetupDocuments, MaxDocs)
    /\ ppc = "idle"
    /\ pdf_i = 0
    /\ chunks = <<>>
    /\ all_chunks = <<>>
    /\ stats = StatsInit
    /\ payloads = <<>>

NextSetup ==
    \/ ProcessAllPdfs
    \/ ProcessPdf
    \/ ProcessAllReturn
    \/ SetupStore
    \/ StoreChunks
    \/ CreateIndexDelete
    \/ CreateIndexCreate
    \/ StoreBatch

SpecSetup == InitSetup /\ [][NextSetup]_vars

-----------------------------------------------------------------------------
(* Claims *)

\* C1: when the classification verdict is exactly the out-of-domain sentinel, the
\* query ends in OutOfContext with the fixed refusal message as its answer, and
\* no search call and no compose call was made for it.
C1_OutOfContextShortCircuit ==
    (qpc \in Returned /\ Strip(verdict) = Sentinel) =>
        /\ qpc = "ret_refusal"
        /\ answer = RefusalMessage
        /\ hist.searchCalls = 0
        /\ hist.composeCalls = 0

\* C2: answer_query returns exactly one string, and when a stage (classification,
\* search, composition, crew construction) failed that string is an error string.
\* (Stated for the calls that do not end in the refusal, which C1 describes.)
C2_ErrorStringOnFailure ==
    (qpc \in Returned /\ qpc # "ret_refusal") =>
        /\ answer # <<>>
        /\ hist.stageFailed => IsErrorString(answer)

\* C3: a run of answer_query takes only the transitions
\* Idle -> Classifying -> (OutOfContext | Retrieving -> Composing -> Done), with
\* Errored entered only from a non-terminal state; Classifying leads to
\* OutOfContext exactly on the sentinel verdict; no transition leaves a terminal
\* state of the run.
OrchTransitions ==
    { <<"Classifying", "OutOfContext">>, <<"Classifying", "Retrieving">>,
      <<"Retrieving", "Composing">>, <<"Composing", "Done">>,
      <<"Classifying", "Errored">>, <<"Retrieving", "Errored">>,
      <<"Composing", "Errored">> }

C3_DeclaredTransitions ==
    [][ LET a == OrchStateOf(qpc)
            b == OrchStateOf(qpc')
        IN  IF qrun' # qrun
            THEN b \in {"Classifying", "Errored"}
            ELSE \/ a = b
                 \/ /\ <<a, b>> \in OrchTransitions
                    /\ b = "OutOfContext" => Strip(verdict') = Sentinel
                    /\ b = "Retrieving" => Strip(verdict') # Sentinel ]_vars

C3_Witness == qpc = "ret_final" /\ hist.composeCalls = 1 /\ hist.searchCalls > 0

\* C4: the hits search_similar returns are exactly the store's matches (at most
\* top_k of them) whose score is >= score_threshold, a score equal to the
\* threshold included: none below the threshold, none that qualifies dropped,
\* none twice, at most top_k.
C4_ThresholdFilter ==
    (srch.pc = "search_done" /\ ~srch.storeDown) =>
        LET r == srch.results
            m == srch.matches
        IN  /\ Len(m) <= srch.top_k
            /\ \A i \in 1..Len(r) : r[i].score >= srch.score_threshold /\ r[i] \in Range(m)
            /\ \A j \in 1..Len(m) : m[j].score >= srch.score_threshold => m[j] \in Range(r)
            /\ Cardinality(Range(r)) = Len(r)
            /\ Len(r) <= srch.top_k

C4_Witness ==
    /\ srch.pc = "search_done"
    /\ ~srch.storeDown
    /\ Len(srch.matches) = 3
    /\ Len(srch.results) = 2
    /\ \E i \in 1..2 : srch.results[i].score = srch.score_threshold

\* C5: the hits search_similar returns are in descending order of score.
C5_SortedDescending ==
    srch.pc = "search_done" =>
        \A i, j \in 1..Len(srch.results) :
            i < j => srch.results[i].score >= srch.results[j].score

C5_Witness ==
    /\ srch.pc = "search_done"
    /\ Len(srch.results) = 3
    /\ srch.results[1].score > srch.results[2].score
    /\ srch.results[2].score > srch.results[3].score

\* C6: a search on an index without vectors, or on one where no vector clears the
\* threshold, returns the empty sequence, and the tool reports it as information,
\* not as an error.
C6_EmptyNotError ==
    (/\ srch.pc = "search_done"
     /\ ~srch.storeDown
     /\ \A v \in srch.observed.vectors : v.score < srch.score_threshold) =>
        /\ srch.results = <<>>
        /\ ToolOutput(srch.results, srch.score_threshold).kind = "info"

C6_Witness ==
    /\ srch.pc = "search_done"
    /\ ~srch.storeDown
    /\ srch.observed.vectors # {}
    /\ \A v \in srch.observed.vectors : v.score < srch.score_threshold
    /\ srch.results = <<>>

C6_WitnessEmptyIndex ==
    /\ srch.pc = "search_done"
    /\ ~srch.storeDown
    /\ srch.observed.exists
    /\ srch.observed.vectors = {}
    /\ srch.results = <<>>

\* C7: when the similarity store is unavailable during a search (index missing,
\* connection or query failure) the outcome of the search is an error, different
\* from the empty result of a search without matches.
C7_UnavailableIsError ==
    (srch.pc = "search_done" /\ srch.storeDown) =>
        /\ srch.results # <<>>
        /\ ToolOutput(srch.results, srch.score_threshold).kind = "error"

\* C8: after store_chunks succeeded the index holds exactly one vector per chunk
\* of that call and no vector it held before the call.
C8_FullReplace ==
    (ipc = "done" /\ storeResult.status = "success") =>
        /\ index.exists
        /\ {v.id : v \in index.vectors} = {<<gen, k>> : k \in 1..nchunks}
        /\ Cardinality(index.vectors) = nchunks
        /\ index.vectors \cap prevIndex.vectors = {}

C8_Witness ==
    /\ ipc = "done"
    /\ storeResult.status = "success"
    /\ prevIndex.vectors # {}
    /\ nchunks > batch_size

\* C9: no search runs against the index between the start of a rebuild and the
\* completion of its upsert.
C9_SearchBlockedDuringRebuild ==
    srch.pc = "search_done" => srch.ingestAt \notin {"create_index", "create", "batch"}

\* C10: when a rebuild stopped before every batch was stored, a later search sees
\* either the complete previous content or the complete new content.
C10_AllOrNothing ==
    (/\ srch.pc = "search_done"
     /\ srch.ingestAt = "error"
     /\ srch.genAt = gen
     /\ ipc = "done") =>
        \/ srch.observed = prevIndex
        \/ /\ srch.observed.exists
           /\ {v.id : v \in srch.observed.vectors} = {<<gen, k>> : k \in 1..nchunks}

\* C11: when batch k of store_chunks fails, every vector of the batches stored
\* before it is still in the index afterwards.
C11_NoRollback ==
    (ipc = "done" /\ storeResult.status = "error" /\ batch_i > 0) =>
        /\ index.exists
        /\ {VectorOf(gen, k) : k \in 1..batch_i} \subseteq index.vectors
        /\ stored_count = batch_i

C11_Witness ==
    /\ ipc = "done"
    /\ storeResult.status = "error"
    /\ batch_i = 2 * batch_size
    /\ Cardinality(index.vectors) = 2 * batch_size

\* C12: store_chunks returns the number of chunks stored and the number failed
\* for every outcome: the stored count is the number of chunks of the call that
\* are in the index, and stored + failed is the number of chunks given.
C12_CountsReturned ==
    (ipc = "done" /\ nchunks > 0) =>
        /\ "chunks_stored" \in DOMAIN storeResult
        /\ storeResult.chunks_stored =
               Cardinality({v \in index.vectors : v.id[1] = gen})
        /\ "chunks_failed" \in DOMAIN storeResult
        /\ storeResult.chunks_stored + storeResult.chunks_failed = nchunks

\* C13: no step of a query or of a search changes the index, and a query that
\* follows another one, failed or not, starts from the state a first query
\* starts from.
C13_QueriesLeaveIndex ==
    [][ /\ index' = index
        /\ (qrun' # qrun /\ qpc' = "search_kickoff") =>
              /\ verdict' = <<>>
              /\ answer' = <<>>
              /\ iters' = 0
              /\ srch' = SearchIdle
              /\ hist' = [HistInit EXCEPT !.prevFailed = hist'.prevFailed,
                                          !.searchRuns = 1] ]_vars

C13_Witness ==
    /\ qrun = 2
    /\ hist.prevFailed
    /\ qpc = "ret_final"
    /\ Len(hist.context.hits) > 0
    /\ index = PreExisting

RECURSIVE ChunksOfSuccessful(_, _)
\* The chunks of the first n files, file after file, a file without chunks
\* giving nothing.
ChunksOfSuccessful(files, n) ==
    IF n = 0 THEN <<>>
    ELSE ChunksOfSuccessful(files, n - 1) \o process_pdf(files[n], n)

FailedDocuments(files) == {n \in 1..Len(files) : process_pdf(files[n], n) = <<>>}

\* C14: process_all_pdfs takes every file of the directory, whatever happened
\* to the files before it; a file that raises or yields no chunks adds nothing
\* and counts as failed; successful + failed is the number of files; the result
\* is the chunks of the successful files in processing order.
C14_FailSoftCorpus ==
    (ppc \in {"returned", "stored", "setup_error"}) =>
        /\ pdf_i = Len(pdf_files)
        /\ stats.failed = Cardinality(FailedDocuments(pdf_files))
        /\ stats.successful + stats.failed = Len(pdf_files)
        /\ all_chunks = ChunksOfSuccessful(pdf_files, Len(pdf_files))
        /\ stats.total_chunks = Len(all_chunks)

C14_Witness ==
    /\ ppc = "returned"
    /\ Len(pdf_files) = 2
    /\ ~pdf_files[1].readable
    /\ stats.failed = 1
    /\ stats.successful = 1
    /\ Len(all_chunks) > 1

\* C15: process_pdf returns no chunk for a document whose page texts are all
\* empty or whitespace-only, whatever its number of pages.
C15_BlankDocumentNoChunks ==
    (/\ ppc = "loop"
     /\ pdf_i > 0
     /\ \A n \in 1..Len(pdf_files[pdf_i].pages) : Strip(pdf_files[pdf_i].pages[n]) = <<>>) =>
        chunks = <<>>

RequiredFields == {"text", "source_file", "page_number"}

\* C19: every payload store_chunks builds has text, source_file and
\* page_number; each optional field is either there with the chunk's value or
\* left out; no field of a payload is null.
C19_PayloadFields ==
    ppc = "stored" =>
        /\ Len(payloads) = Len(all_chunks)
        /\ \A i \in 1..Len(payloads) :
              LET m == payloads[i].metadata
                  c == all_chunks[i]
              IN  /\ RequiredFields \subseteq DOMAIN m
                  /\ DOMAIN m \subseteq RequiredFields \cup OptionalFields
                  /\ \A f \in DOMAIN m : m[f] # <<>>
                  /\ \A f \in DOMAIN m \cap RequiredFields : m[f] = <<c[f]>>
                  /\ \A f \in DOMAIN m \cap OptionalFields : m[f] = c[f]

C19_Witness ==
    /\ ppc = "stored"
    /\ \E i, j \in 1..Len(payloads) :
          /\ "decision_date" \in DOMAIN payloads[i].metadata
          /\ "decision_date" \notin DOMAIN payloads[j].metadata
          /\ all_chunks[j].decision_date = <<>>
          /\ "chunk_index" \in DOMAIN payloads[j].metadata

\* A raw date token: a month code, two digits of the day, four of the year
IsRawDateToken(t) ==
    /\ Len(t) = 9
    /\ \E e \in Range(MonthTable) : e.code = SubSeq(t, 1, 3)
    /\ \A k \in 4..9 : t[k] \in Digits

\* C20: the decision_date of every chunk, when there is one, is a raw token of
\* the form MMMDDYYYY.
C20_DateIsRawToken ==
    \A i \in 1..Len(all_chunks) :
        all_chunks[i].decision_date # <<>> =>
            IsRawDateToken(all_chunks[i].decision_date[1])

\* C16: for a query judged relevant the search task is executed once, and the
\* search results handed to the formatter are those the relevance check's
\* search retrieved.
C16_SingleSearch ==
    (qpc \in {"full_format", "ret_final"}) =>
        /\ hist.searchRuns = 1
        /\ hist.context = hist.kickoffHits

\* C17: the analysis of every answer returned in Done has between 1000 and 1750
\* characters.
C17_BodyLength ==
    qpc = "ret_final" => (1000 <= hist.bodyChars /\ hist.bodyChars <= 1750)

\* C18: every source entry of a returned answer carries the stored date of its
\* search result converted by the month table (FEB032025 as Feb 03, 2025), and
\* no date when the search result has none.
C18_CitationDates ==
    qpc = "ret_final" =>
        /\ Len(hist.citations) = Len(hist.context.hits)
        /\ \A i \in 1..Len(hist.citations) :
              LET stored == hist.context.hits[i].decision_date
              IN  hist.citations[i].date =
                    IF stored = <<>> THEN <<>> ELSE <<FormatDate(stored[1])>>

\* The overlap line 215 computes for page k
OverlapWith(text, pages, k) == Cardinality(Words(text) \cap Words(pages[k]))

\* C21: the page of every chunk is the lowest-numbered page among those with the
\* largest word overlap with the chunk, and page 1 when no page has any
\* overlap; so it is at least 1.
C21_PageAssignment ==
    (ppc = "loop" /\ pdf_i > 0) =>
        \A i \in 1..Len(chunks) :
            LET pages == pdf_files[pdf_i].pages
                text  == chunks[i].text
                best  == {k \in 1..Len(pages) :
                            /\ OverlapWith(text, pages, k) > 0
                            /\ \A j \in 1..Len(pages) :
                                  OverlapWith(text, pages, j) <= OverlapWith(text, pages, k)}
            IN  /\ chunks[i].page_number >= 1
                /\ IF best = {} THEN chunks[i].page_number = 1
                   ELSE /\ chunks[i].page_number \in best
                        /\ \A k \in best : chunks[i].page_number <= k

C21_Witness ==
    /\ ppc = "loop"
    /\ pdf_i > 0
    /\ Len(pdf_files[pdf_i].pages) = 2
    /\ \E i \in 1..Len(chunks) :
          /\ OverlapWith(chunks[i].text, pdf_files[pdf_i].pages, 1) > 0
          /\ OverlapWith(chunks[i].text, pdf_files[pdf_i].pages, 1)
                = OverlapWith(chunks[i].text, pdf_files[pdf_i].pages, 2)
          /\ chunks[i].page_number = 1

\* C22: the chunk_index values of a document's chunks are 0..n-1 in emission
\* order.
C22_ChunkIndexSequence ==
    (ppc = "loop" /\ pdf_i > 0) =>
        \A i \in 1..Len(chunks) : chunks[i].chunk_index = <<i - 1>>

C22_Witness ==
    /\ ppc = "loop"
    /\ pdf_i > 0
    /\ Len(chunks) >= 3
    /\ chunks[3].chunk_index = <<2>>

\* The text the classifier is given: full_text of the file process_pdf took last
ClassifiedText == FullTextOf(pdf_files[pdf_i].pages, Len(pdf_files[pdf_i].pages))

PetitionPriority ==
    << [marker |-> "Extraordinary Ability", label |-> "EB-1A Extraordinary Ability"],
       [marker |-> "Outstanding Professor", label |-> "EB-1B Outstanding Professor"],
       [marker |-> "Multinational Manager", label |-> "EB-1C Multinational Manager"] >>

\* C23: the petition type is the label of the highest-priority marker that
\* occurs anywhere in the text, wherever the markers stand, and the generic
\* label when none occurs.
C23_PetitionPriority ==
    (ppc = "loop" /\ pdf_i > 0) =>
        LET present == {m \in 1..3 : PetitionPriority[m].marker \in Range(ClassifiedText)}
        IN  \A i \in 1..Len(chunks) :
                chunks[i].petition_type =
                    IF present = {} THEN <<"I-140">>
                    ELSE <<PetitionPriority[CHOOSE m \in present :
                                               \A n \in present : m <= n].label>>

C23_Witness ==
    /\ ppc = "loop"
    /\ pdf_i > 0
    /\ pdf_files[pdf_i].pages[1] =
          <<"Multinational Manager", "Outstanding Professor", "Extraordinary Ability">>
    /\ chunks[1].petition_type = <<"EB-1A Extraordinary Ability">>

\* The outcome whose group is the first, in the order sustained/approved/granted,
\* dismissed/denied, remand, to have a keyword among the tokens S
OutcomeByPriority(S) ==
    IF S \cap outcome_keywords[1].keywords # {} THEN <<"Approved/Sustained">>
    ELSE IF S \cap outcome_keywords[2].keywords # {} THEN <<"Denied/Dismissed">>
    ELSE IF S \cap outcome_keywords[3].keywords # {} THEN <<"Remanded">>
    ELSE <<>>

\* The ORDER: section of the trailing 2000 characters: what follows the first
\* ORDER: there, up to the next blank line
OrderSection == OrderText(LastChars(ClassifiedText, window))

\* C24: when the trailing 2000 characters have an ORDER: section with an outcome
\* keyword in it, the outcome is the first group in priority order with a
\* keyword inside that section, whatever keywords stand outside it.
C24_OrderSectionDecides ==
    (/\ ppc = "loop"
     /\ pdf_i > 0
     /\ OutcomeByPriority(Range(OrderSection)) # <<>>) =>
        \A i \in 1..Len(chunks) :
            chunks[i].decision_outcome = OutcomeByPriority(Range(OrderSection))

C24_Witness ==
    /\ ppc = "loop"
    /\ pdf_i > 0
    /\ pdf_files[pdf_i].pages[1] =
          <<"petition is approved", "ORDER:", "appeal is dismissed", "\n\n">>
    /\ chunks[1].decision_outcome = <<"Denied/Dismissed">>

\* C25: without an ORDER: section in the trailing 2000 characters, or without
\* an outcome keyword in it, the outcome is the first group in priority order
\* with a keyword in the leading or the trailing 2000 characters, and absent
\* when there is none; the outcome is always one of the three labels or absent.
C25_FallbackWindows ==
    (ppc = "loop" /\ pdf_i > 0) =>
        \A i \in 1..Len(chunks) :
            /\ chunks[i].decision_outcome \in
                  {<<"Approved/Sustained">>, <<"Denied/Dismissed">>, <<"Remanded">>, <<>>}
            /\ OutcomeByPriority(Range(OrderSection)) = <<>> =>
                  chunks[i].decision_outcome =
                      OutcomeByPriority(Range(FirstChars(ClassifiedText, window))
                                        \cup Range(LastChars(ClassifiedText, window)))

C25_Witness ==
    /\ ppc = "loop"
    /\ pdf_i > 0
    /\ pdf_files[pdf_i].pages[1] = <<Filler, "appeal is dismissed", Filler>>
    /\ chunks[1].decision_outcome = <<>>

\* C26: store_chunks takes its chunks in consecutive batches in input order:
\* every batch has at most 50 chunks, starts where the last one ended, holds
\* only chunks not stored before, and only the last batch may be shorter.
C26_ConsecutiveBatches ==
    [][ (ipc = "batch" /\ index' # index) =>
          LET new == index'.vectors \ index.vectors
              n   == stored_count' - stored_count
          IN  /\ 1 <= n /\ n <= batch_size
              /\ index.vectors \subseteq index'.vectors
              /\ Cardinality(new) = n
              /\ {v.id : v \in new} = {<<gen, k>> : k \in (stored_count + 1)..(stored_count + n)}
              /\ n < batch_size => stored_count' = nchunks ]_vars

C26_Witness ==
    /\ ipc = "done"
    /\ nchunks = MaxChunks
    /\ stored_count = MaxChunks
    /\ batch_i = 3 * batch_size
    /\ Cardinality(index.vectors) = MaxChunks

\* C29: store_chunks with an empty list returns an error without deleting,
\* creating or writing the index; so does setup_complete_system when no
\* document gave a chunk, and no step of the document processing touches the
\* index.
C29_NothingToStore ==
    [][ /\ (gen' # gen /\ nchunks' = 0) =>
              /\ index' = index
              /\ ipc' = "done"
              /\ storeResult'.status = "error"
        /\ (ppc' = "setup_error" /\ ppc # "setup_error") =>
              /\ all_chunks = <<>>
              /\ index' = index
              /\ UNCHANGED <<ipc, gen, storeResult>>
        /\ (ppc' # ppc \/ pdf_i' # pdf_i) => index' = index ]_vars

C29_Witness ==
    /\ ppc = "setup_error"
    /\ ipc = "done"
    /\ nchunks = 0
    /\ storeResult.status = "error"
    /\ index = PreExisting

\* C30: store_chunks ends with status success or error; success means that the
\* index was created and every batch stored, with chunks_stored the number of
\* chunks given; a call that stops before all chunks are stored returns error;
\* after the call has returned nothing more is stored for it.
C30_SuccessOrError ==
    [][ /\ ipc' = "done" =>
              /\ storeResult'.status \in {"success", "error"}
              /\ storeResult'.status = "success" =>
                    /\ storeResult'.chunks_stored = nchunks'
                    /\ stored_count' = nchunks'
                    /\ AllVectors(gen', nchunks') \subseteq index'.vectors
              /\ stored_count' < nchunks' => storeResult'.status = "error"
        /\ (ipc = "done" /\ gen' = gen) =>
              UNCHANGED <<index, ipc, batch_i, stored_count, storeResult>> ]_vars

C30_Witness ==
    /\ ipc = "done"
    /\ storeResult.status = "error"
    /\ nchunks = MaxChunks
    /\ batch_i = batch_size
    /\ stored_count = batch_size

C28_FirstVerdictDecides ==
    /\ (qpc \in Returned /\ verdict # <<>> /\ Strip(verdict) # Sentinel) =>
          /\ qpc # "ret_refusal"
          /\ answer # RefusalMessage
          /\ \/ qpc = "ret_final" /\ answer \in FormatterOutputs
             \/ IsErrorString(answer)
    /\ qpc = "ret_refusal" => (Strip(verdict) = Sentinel /\ hist.rerun = <<>>)

C28_Witness ==
    /\ qpc = "ret_final"
    /\ Strip(verdict) # Sentinel
    /\ hist.rerun = Sentinel
    /\ answer \in FormatterOutputs

====
